---- MODULE Spec2Model ----
(***************************************************************************)
(* A model of ratio_calculator.py: the table extractor (_read_table), the  *)
(* label resolver (_find_value), the guarded arithmetic (_average,         *)
(* _safe_divide) and the batch operation build_ratios, which loads a       *)
(* workbook, reads four sheets, computes eleven ratios per year, replaces  *)
(* the RATIOS sheet and saves.                                             *)
(*                                                                         *)
(* Strings that the code inspects (labels, text cells) are sequences of    *)
(* one-character strings, so that strip/lower/split and the substring test *)
(* are computed.  Python floats are exact rationals n/d in lowest terms    *)
(* with the IEEE-754 special values inf, -inf and nan; a finite result     *)
(* whose magnitude exceeds FloatMax overflows to an infinity, as Python's  *)
(* float addition and division do.  Rounding is not modelled.              *)
(***************************************************************************)
EXTENDS Integers, Sequences, FiniteSets, TLC

VARIABLES
    files,      \* path -> the persisted workbook (a sequence of sheets)
    args,       \* build_ratios' arguments: workbook_path, output_path
    wb,         \* the workbook in memory
    tables,     \* sheet name -> table, in SHEET_CONFIGS order, as read so far
    years,      \* the year list of the run
    ratios,     \* ratio name -> (year -> value or None)
    pc,         \* the position of build_ratios
    err,        \* the exception that ended the run, or "none"
    call,       \* a helper's arguments, when a helper is exercised directly
    ret         \* that helper's result

vars == <<files, args, wb, tables, years, ratios, pc, err, call, ret>>

----------------------------------------------------------------------------
(* Python floats *)

\* The largest finite magnitude of the float model (sys.float_info.max).
FloatMax == 100000

Abs(i) == IF i < 0 THEN -i ELSE i

RECURSIVE Gcd(_, _)
Gcd(a, b) == IF b = 0 THEN a ELSE Gcd(b, a % b)

\* Python's None, in the shape of a float so that Optional[float] is one type.
None == [k |-> "none", n |-> 0, d |-> 1]
NaN == [k |-> "nan", n |-> 0, d |-> 1]
PosInf == [k |-> "inf", n |-> 1, d |-> 1]
NegInf == [k |-> "inf", n |-> -1, d |-> 1]
\* What an operation returns in place of raising ZeroDivisionError.
ZeroDivisionError == [k |-> "raise", n |-> 0, d |-> 1]

Sign(i) == IF i < 0 THEN -1 ELSE IF i > 0 THEN 1 ELSE 0

\* The float n/d (d # 0): lowest terms, or an infinity on overflow.
Fin(n, d) ==
    LET s == IF d < 0 THEN -1 ELSE 1
        g == Gcd(Abs(n), Abs(d))
        nn == (s * n) \div g
        dd == (s * d) \div g
        q == Abs(nn) \div dd
        r == Abs(nn) % dd
    IN  IF q > FloatMax \/ (q = FloatMax /\ r > 0)
        THEN [k |-> "inf", n |-> Sign(nn), d |-> 1]
        ELSE [k |-> "fin", n |-> nn, d |-> dd]

Int2Float(i) == Fin(i, 1)

IsFinite(x) == x.k = "fin"

\* x == 0 in Python: true of 0, 0.0 and -0.0, false of nan and of None.
IsZero(x) == x.k = "fin" /\ x.n = 0

FNeg(x) == IF x.k \in {"fin", "inf"} THEN [x EXCEPT !.n = -x.n] ELSE x

\* x + y on floats.
FAdd(x, y) ==
    IF x.k = "nan" \/ y.k = "nan" THEN NaN
    ELSE IF x.k = "inf" /\ y.k = "inf" THEN (IF x.n = y.n THEN x ELSE NaN)
    ELSE IF x.k = "inf" THEN x
    ELSE IF y.k = "inf" THEN y
    ELSE Fin(x.n * y.d + y.n * x.d, x.d * y.d)

\* x - y on floats.
FSub(x, y) == FAdd(x, FNeg(y))

\* x / y on floats: Python raises ZeroDivisionError for a zero divisor and
\* otherwise follows IEEE-754 (an overflowing quotient is an infinity).
FDiv(x, y) ==
    IF IsZero(y) THEN ZeroDivisionError
    ELSE IF x.k = "nan" \/ y.k = "nan" THEN NaN
    ELSE IF x.k = "inf" /\ y.k = "inf" THEN NaN
    ELSE IF x.k = "inf" THEN [k |-> "inf", n |-> x.n * Sign(y.n), d |-> 1]
    ELSE IF y.k = "inf" THEN Fin(0, 1)
    ELSE Fin(x.n * y.d, x.d * y.n)

\* int(x) for a finite float: truncation toward zero.
IntOf(x) == Sign(x.n) * (Abs(x.n) \div x.d)

----------------------------------------------------------------------------
(* Python strings, as sequences of characters *)

Whitespace == {" ", "\t", "\n"}

UpperCase ==
    <<"A","B","C","D","E","F","G","H","I","J","K","L","M",
      "N","O","P","Q","R","S","T","U","V","W","X","Y","Z">>

LowerCase ==
    <<"a","b","c","d","e","f","g","h","i","j","k","l","m",
      "n","o","p","q","r","s","t","u","v","w","x","y","z">>

Digits == <<"0","1","2","3","4","5","6","7","8","9">>

\* str.lower(), one character
LowerChar(c) ==
    IF \E i \in DOMAIN UpperCase : UpperCase[i] = c
    THEN LowerCase[CHOOSE i \in DOMAIN UpperCase : UpperCase[i] = c]
    ELSE c

\* str.lower()
Lower(s) == [i \in DOMAIN s |-> LowerChar(s[i])]

\* str.strip()
RECURSIVE LStrip(_)
LStrip(s) ==
    IF s # <<>> /\ Head(s) \in Whitespace THEN LStrip(Tail(s)) ELSE s

RECURSIVE RStrip(_)
RStrip(s) ==
    IF s # <<>> /\ s[Len(s)] \in Whitespace
    THEN RStrip(SubSeq(s, 1, Len(s) - 1))
    ELSE s

Strip(s) == RStrip(LStrip(s))

\* str.split() with no separator: the maximal runs of non-whitespace.
RECURSIVE SplitFrom(_, _, _)
SplitFrom(s, word, acc) ==
    IF s = <<>>
    THEN (IF word = <<>> THEN acc ELSE Append(acc, word))
    ELSE IF Head(s) \in Whitespace
         THEN SplitFrom(Tail(s), <<>>,
                        IF word = <<>> THEN acc ELSE Append(acc, word))
         ELSE SplitFrom(Tail(s), Append(word, Head(s)), acc)

Split(s) == SplitFrom(s, <<>>, <<>>)

\* " ".join(words)
RECURSIVE Join(_)
Join(words) ==
    IF words = <<>> THEN <<>>
    ELSE IF Len(words) = 1 THEN words[1]
    ELSE words[1] \o <<" ">> \o Join(Tail(words))

\* needle in haystack
Contains(haystack, needle) ==
    \E i \in 0..(Len(haystack) - Len(needle)) :
        \A j \in 1..Len(needle) : haystack[i + j] = needle[j]

_normalize_label(label) == Join(Split(Lower(Strip(label))))

----------------------------------------------------------------------------
(* Worksheet cells *)

\* A cell value: None, a string, or a number (a workbook stores finite
\* numbers only).
NoneCell == [t |-> "none", s |-> <<>>, v |-> None]
Text(s) == [t |-> "str", s |-> s, v |-> None]
Number(x) == [t |-> "num", s |-> <<>>, v |-> x]

\* value in (None, "")
IsBlank(value) == value.t = "none" \/ (value.t = "str" /\ value.s = <<>>)

\* ws.cell(row=row, column=col).value; a worksheet is a function on the
\* coordinates of its non-empty cells.
CellValue(ws, row, col) ==
    IF <<row, col>> \in DOMAIN ws THEN ws[<<row, col>>] ELSE NoneCell

\* What float() returns in place of raising ValueError.
ValueError == [k |-> "ValueError", n |-> 0, d |-> 1]

DigitValue(c) == (CHOOSE i \in DOMAIN Digits : Digits[i] = c) - 1

IsDigits(s) == \A i \in DOMAIN s : \E j \in DOMAIN Digits : Digits[j] = s[i]

RECURSIVE DigitsValue(_)
DigitsValue(s) ==
    IF s = <<>> THEN 0
    ELSE 10 * DigitsValue(SubSeq(s, 1, Len(s) - 1)) + DigitValue(s[Len(s)])

RECURSIVE Pow10(_)
Pow10(e) == IF e = 0 THEN 1 ELSE 10 * Pow10(e - 1)

\* float(s) for a string over letters, digits, sign, point and whitespace:
\* surrounding whitespace is ignored, then an optional sign and either a
\* decimal numeral, "inf", "infinity" or "nan" in any case; anything else
\* raises ValueError.
ParseFloat(s) ==
    LET t == Lower(Strip(s))
        signed == t # <<>> /\ Head(t) \in {"+", "-"}
        sgn == IF signed /\ Head(t) = "-" THEN -1 ELSE 1
        body == IF signed THEN Tail(t) ELSE t
        dots == {i \in DOMAIN body : body[i] = "."}
        p == IF dots = {} THEN Len(body) + 1 ELSE CHOOSE i \in dots : TRUE
        whole == SubSeq(body, 1, p - 1)
        frac == SubSeq(body, p + 1, Len(body))
    IN  IF body \in {<<"i","n","f">>, <<"i","n","f","i","n","i","t","y">>}
        THEN [k |-> "inf", n |-> sgn, d |-> 1]
        ELSE IF body = <<"n","a","n">> THEN NaN
        ELSE IF /\ Cardinality(dots) <= 1
                /\ IsDigits(whole) /\ IsDigits(frac)
                /\ Len(whole) + Len(frac) > 0
        THEN Fin(sgn * (DigitsValue(whole) * Pow10(Len(frac)) + DigitsValue(frac)),
                 Pow10(Len(frac)))
        ELSE ValueError

\* float(value) for a non-blank cell value
Float(value) == IF value.t = "num" THEN value.v ELSE ParseFloat(value.s)

----------------------------------------------------------------------------
(* SheetConfig and SHEET_CONFIGS *)

SheetConfig(name, header_row, label_col, data_start_row, data_end_row, year_cols) ==
    [name |-> name, header_row |-> header_row, label_col |-> label_col,
     data_start_row |-> data_start_row, data_end_row |-> data_end_row,
     year_cols |-> year_cols]

\* The keys of SHEET_CONFIGS, in dict order.
SheetNames ==
    <<"INCOME_STATEMENT", "BALANCE_SHEET", "STOCKHOLDERS_EQUITY", "CASH_FLOW">>

SHEET_CONFIGS ==
    [INCOME_STATEMENT |->
        SheetConfig("INCOME_STATEMENT", 15, 2, 16, 42, <<3, 4, 5>>),
     BALANCE_SHEET |->
        SheetConfig("BALANCE_SHEET", 14, 2, 17, 55, <<3, 4>>),
     STOCKHOLDERS_EQUITY |->
        SheetConfig("STOCKHOLDERS_EQUITY", 17, 2, 18, 62,
                    <<3, 4, 5, 6, 7, 8, 9, 10>>),
     CASH_FLOW |->
        SheetConfig("CASH_FLOW", 15, 2, 17, 68, <<3, 4, 5>>)]

----------------------------------------------------------------------------
(* Dict[str, Dict[int, float]]: a table is the sequence of its items in     *)
(* insertion order; an inner dict is a function from years to floats.       *)

EmptyDict == [y \in {} |-> None]

\* d[key] = value on an inner dict
DictPut(d, key, value) ==
    [y \in DOMAIN d \cup {key} |-> IF y = key THEN value ELSE d[y]]

\* key in table
HasKey(table, key) == \E i \in DOMAIN table : table[i].key = key

\* table[key]
Lookup(table, key) ==
    table[CHOOSE i \in DOMAIN table : table[i].key = key].values

\* A table[key].update(values) in place of the assignment: the years of an
\* earlier row with the same key survive.
TablePut_Merge(table, key, values) ==
    IF HasKey(table, key)
    THEN [i \in DOMAIN table |->
            IF table[i].key = key
            THEN [key |-> key,
                  values |-> [y \in DOMAIN table[i].values \cup DOMAIN values |->
                                IF y \in DOMAIN values THEN values[y]
                                ELSE table[i].values[y]]]
            ELSE table[i]]
    ELSE Append(table, [key |-> key, values |-> values])

\* table[key] = values: an existing key keeps its position.
TablePut(table, key, values) ==
    IF HasKey(table, key)
    THEN [i \in DOMAIN table |->
            IF table[i].key = key THEN [key |-> key, values |-> values]
            ELSE table[i]]
    ELSE Append(table, [key |-> key, values |-> values])

----------------------------------------------------------------------------
(* _read_table *)

NoYear == [some |-> FALSE, y |-> 0]

\* The years list: int(header) for a numeric header cell, None otherwise.
HeaderYears(ws, config) ==
    [i \in DOMAIN config.year_cols |->
        LET year_val == CellValue(ws, config.header_row, config.year_cols[i])
        IN  IF year_val.t = "num"
            THEN [some |-> TRUE, y |-> IntOf(year_val.v)]
            ELSE NoYear]

\* An inner loop that stores 0.0 for a blank cell instead of skipping it.
RECURSIVE RowValues_ZeroForBlank(_, _, _, _, _, _)
RowValues_ZeroForBlank(ws, config, yrs, row, i, row_values) ==
    IF i > Len(config.year_cols) THEN row_values
    ELSE LET value == CellValue(ws, row, config.year_cols[i])
         IN  IF ~yrs[i].some
             THEN RowValues_ZeroForBlank(ws, config, yrs, row, i + 1, row_values)
             ELSE IF IsBlank(value)
             THEN RowValues_ZeroForBlank(ws, config, yrs, row, i + 1,
                        DictPut(row_values, yrs[i].y, Int2Float(0)))
             ELSE IF Float(value) = ValueError
             THEN RowValues_ZeroForBlank(ws, config, yrs, row, i + 1, row_values)
             ELSE RowValues_ZeroForBlank(ws, config, yrs, row, i + 1,
                        DictPut(row_values, yrs[i].y, Float(value)))

\* The inner loop over zip(config.year_cols, years), from position i on.
RECURSIVE RowValues(_, _, _, _, _, _)
RowValues(ws, config, yrs, row, i, row_values) ==
    IF i > Len(config.year_cols) THEN row_values
    ELSE LET value == CellValue(ws, row, config.year_cols[i])
         IN  IF ~yrs[i].some \/ IsBlank(value) \/ Float(value) = ValueError
             THEN RowValues(ws, config, yrs, row, i + 1, row_values)
             ELSE RowValues(ws, config, yrs, row, i + 1,
                            DictPut(row_values, yrs[i].y, Float(value)))

\* The outer loop over the data rows, from row on.
RECURSIVE ReadRows(_, _, _, _, _)
ReadRows(ws, config, yrs, row, table) ==
    IF row > config.data_end_row THEN table
    ELSE LET label == CellValue(ws, row, config.label_col)
             row_values == RowValues(ws, config, yrs, row, 1, EmptyDict)
         IN  IF IsBlank(label) \/ DOMAIN row_values = {}
             THEN ReadRows(ws, config, yrs, row + 1, table)
             ELSE ReadRows(ws, config, yrs, row + 1,
                           TablePut(table, _normalize_label(label.s), row_values))

_read_table(ws, config) ==
    ReadRows(ws, config, HeaderYears(ws, config), config.data_start_row, <<>>)

----------------------------------------------------------------------------
(* _find_value, _average, _safe_divide *)

NotFound == [found |-> FALSE, value |-> None]

\* The first loop: the variants in order, from position i on.
RECURSIVE FindExact(_, _, _, _)
FindExact(table, label_variants, year, i) ==
    IF i > Len(label_variants) THEN NotFound
    ELSE LET key == _normalize_label(label_variants[i])
         IN  IF HasKey(table, key) /\ year \in DOMAIN Lookup(table, key)
             THEN [found |-> TRUE, value |-> Lookup(table, key)[year]]
             ELSE FindExact(table, label_variants, year, i + 1)

\* The fallback loop: the items in insertion order, from position i on; the
\* value returned for an item does not depend on which variant matched it.
RECURSIVE FindSubstring(_, _, _, _)
FindSubstring(table, label_variants, year, i) ==
    IF i > Len(table) THEN None
    ELSE IF /\ year \in DOMAIN table[i].values
            /\ \E v \in DOMAIN label_variants :
                  Contains(table[i].key, _normalize_label(label_variants[v]))
         THEN table[i].values[year]
         ELSE FindSubstring(table, label_variants, year, i + 1)

\* A resolver that tries the substring search before the exact match.
_find_value_SubstringFirst(table, label_variants, year) ==
    LET sub == FindSubstring(table, label_variants, year, 1)
    IN  IF sub # None THEN sub
        ELSE FindExact(table, label_variants, year, 1).value

_find_value(table, label_variants, year) ==
    LET exact == FindExact(table, label_variants, year, 1)
    IN  IF exact.found THEN exact.value
        ELSE FindSubstring(table, label_variants, year, 1)

\* An average that falls back on the one value it has.
_average_Partial(current, prior) ==
    IF current = None THEN prior
    ELSE IF prior = None THEN current
    ELSE FDiv(FAdd(current, prior), Int2Float(2))

_average(current, prior) ==
    IF current = None \/ prior = None THEN None
    ELSE FDiv(FAdd(current, prior), Int2Float(2))

_safe_divide(numerator, denominator) ==
    IF numerator = None \/ denominator = None \/ IsZero(denominator)
    THEN None
    ELSE FDiv(numerator, denominator)

----------------------------------------------------------------------------
(* The labels build_ratios looks up, and the names of the ratios *)

\* "Revenue"
L_Revenue ==
    <<"R","e","v","e","n","u","e">>
\* "Cost of revenue"
L_CostOfRevenue ==
    <<"C","o","s","t"," ","o","f"," ","r","e","v","e","n","u",
      "e">>
\* "Net income (loss)"
L_NetIncome ==
    <<"N","e","t"," ","i","n","c","o","m","e"," ","(","l","o",
      "s","s",")">>
\* "Net income (loss) attributable to common stockholders"
L_NetIncomeCommon ==
    <<"N","e","t"," ","i","n","c","o","m","e"," ","(","l","o",
      "s","s",")"," ","a","t","t","r","i","b","u","t","a","b",
      "l","e"," ","t","o"," ","c","o","m","m","o","n"," ","s",
      "t","o","c","k","h","o","l","d","e","r","s">>
\* "Accounts receivable, net"
L_AccountsReceivable ==
    <<"A","c","c","o","u","n","t","s"," ","r","e","c","e","i",
      "v","a","b","l","e",","," ","n","e","t">>
\* "Inventory"
L_Inventory ==
    <<"I","n","v","e","n","t","o","r","y">>
\* "Accounts payable"
L_AccountsPayable ==
    <<"A","c","c","o","u","n","t","s"," ","p","a","y","a","b",
      "l","e">>
\* "Property and equipment, net"
L_PPE ==
    <<"P","r","o","p","e","r","t","y"," ","a","n","d"," ","e",
      "q","u","i","p","m","e","n","t",","," ","n","e","t">>
\* "Total assets"
L_TotalAssets ==
    <<"T","o","t","a","l"," ","a","s","s","e","t","s">>
\* "Total equity"
L_TotalEquity ==
    <<"T","o","t","a","l"," ","e","q","u","i","t","y">>
\* "Total Palantir's stockholders' equity"
L_TotalStockholdersEquity ==
    <<"T","o","t","a","l"," ","P","a","l","a","n","t","i","r",
      "'","s"," ","s","t","o","c","k","h","o","l","d","e","r",
      "s","'"," ","e","q","u","i","t","y">>

\* "A/R Turnover"
R_ARTurnover ==
    <<"A","/","R"," ","T","u","r","n","o","v","e","r">>
\* "Inventory Turnover"
R_InventoryTurnover ==
    <<"I","n","v","e","n","t","o","r","y"," ","T","u","r","n",
      "o","v","e","r">>
\* "A/P Turnover"
R_APTurnover ==
    <<"A","/","P"," ","T","u","r","n","o","v","e","r">>
\* "PPE Turnover"
R_PPETurnover ==
    <<"P","P","E"," ","T","u","r","n","o","v","e","r">>
\* "Asset Turnover"
R_AssetTurnover ==
    <<"A","s","s","e","t"," ","T","u","r","n","o","v","e","r">>
\* "Return on Assets"
R_ReturnOnAssets ==
    <<"R","e","t","u","r","n"," ","o","n"," ","A","s","s","e",
      "t","s">>
\* "Cash Conversion Cycle"
R_CashConversionCycle ==
    <<"C","a","s","h"," ","C","o","n","v","e","r","s","i","o",
      "n"," ","C","y","c","l","e">>
\* "Return on Equity"
R_ReturnOnEquity ==
    <<"R","e","t","u","r","n"," ","o","n"," ","E","q","u","i",
      "t","y">>
\* "Return on Common Equity"
R_ReturnOnCommonEquity ==
    <<"R","e","t","u","r","n"," ","o","n"," ","C","o","m","m",
      "o","n"," ","E","q","u","i","t","y">>
\* "Net Profit Margin"
R_NetProfitMargin ==
    <<"N","e","t"," ","P","r","o","f","i","t"," ","M","a","r",
      "g","i","n">>
\* "Leverage"
R_Leverage ==
    <<"L","e","v","e","r","a","g","e">>
\* "Ratio"
S_Ratio ==
    <<"R","a","t","i","o">>

\* The keys of the ratios dict, in insertion order.
RatioNames ==
    <<R_ARTurnover, R_InventoryTurnover, R_APTurnover, R_PPETurnover,
      R_AssetTurnover, R_ReturnOnAssets, R_CashConversionCycle,
      R_ReturnOnEquity, R_ReturnOnCommonEquity, R_NetProfitMargin,
      R_Leverage>>

RatioSet == {RatioNames[i] : i \in DOMAIN RatioNames}

----------------------------------------------------------------------------
(* build_ratios: the computation *)

\* sorted(S) for a set of integers
RECURSIVE Sorted(_)
Sorted(S) ==
    IF S = {} THEN <<>>
    ELSE LET m == CHOOSE x \in S : \A y \in S : x <= y
         IN  <<m>> \o Sorted(S \ {m})

\* next(iter(table.values())) raises StopIteration on an empty table.
CanTakeFirst(table) == table # <<>>

\* A year list taken from the income table alone.
RunYears_IncomeOnly(income, balance) == Sorted(DOMAIN income[1].values)

\* sorted(set(first income row's keys) & set(first balance row's keys))
RunYears(income, balance) ==
    Sorted(DOMAIN income[1].values \cap DOMAIN balance[1].values)

\* A cycle that is None whenever any of the three is None.
CashConversionCycle_NeedsDio(dso, dio, dpo) ==
    IF dso # None /\ dpo # None /\ dio # None
    THEN FSub(FAdd(dso, dio), dpo)
    ELSE None

\* ccc: None unless dso and dpo are known; without dio, dso - dpo.
CashConversionCycle(dso, dio, dpo) ==
    IF dso # None /\ dpo # None
    THEN (IF dio = None THEN FSub(dso, dpo) ELSE FSub(FAdd(dso, dio), dpo))
    ELSE None

\* The body of the loop over years: ratio name -> value for one year.
YearRatios(income, balance, year) ==
    LET prior_year == year - 1
        revenue == _find_value(income, <<L_Revenue>>, year)
        cost_of_revenue == _find_value(income, <<L_CostOfRevenue>>, year)
        net_income == _find_value(income, <<L_NetIncome>>, year)
        net_income_common == _find_value(income, <<L_NetIncomeCommon>>, year)
        accounts_receivable == _find_value(balance, <<L_AccountsReceivable>>, year)
        accounts_receivable_prior ==
            _find_value(balance, <<L_AccountsReceivable>>, prior_year)
        inventory == _find_value(balance, <<L_Inventory>>, year)
        inventory_prior == _find_value(balance, <<L_Inventory>>, prior_year)
        accounts_payable == _find_value(balance, <<L_AccountsPayable>>, year)
        accounts_payable_prior ==
            _find_value(balance, <<L_AccountsPayable>>, prior_year)
        ppe == _find_value(balance, <<L_PPE>>, year)
        ppe_prior == _find_value(balance, <<L_PPE>>, prior_year)
        total_assets == _find_value(balance, <<L_TotalAssets>>, year)
        total_assets_prior == _find_value(balance, <<L_TotalAssets>>, prior_year)
        total_equity == _find_value(balance, <<L_TotalEquity>>, year)
        total_equity_prior == _find_value(balance, <<L_TotalEquity>>, prior_year)
        total_stockholders_equity ==
            _find_value(balance, <<L_TotalStockholdersEquity>>, year)
        total_stockholders_equity_prior ==
            _find_value(balance, <<L_TotalStockholdersEquity>>, prior_year)
        avg_ar == _average(accounts_receivable, accounts_receivable_prior)
        avg_inventory == _average(inventory, inventory_prior)
        avg_ap == _average(accounts_payable, accounts_payable_prior)
        avg_ppe == _average(ppe, ppe_prior)
        avg_assets == _average(total_assets, total_assets_prior)
        avg_equity == _average(total_equity, total_equity_prior)
        avg_common_equity ==
            _average(total_stockholders_equity, total_stockholders_equity_prior)
        ar_turnover == _safe_divide(revenue, avg_ar)
        inventory_turnover == _safe_divide(cost_of_revenue, avg_inventory)
        ap_turnover == _safe_divide(cost_of_revenue, avg_ap)
        ppe_turnover == _safe_divide(revenue, avg_ppe)
        asset_turnover == _safe_divide(revenue, avg_assets)
        roa == _safe_divide(net_income, avg_assets)
        dso == _safe_divide(Int2Float(365), ar_turnover)
        dio == _safe_divide(Int2Float(365), inventory_turnover)
        dpo == _safe_divide(Int2Float(365), ap_turnover)
        ccc == CashConversionCycle(dso, dio, dpo)
        roe == _safe_divide(net_income, avg_equity)
        roce == _safe_divide(net_income_common, avg_common_equity)
        npm == _safe_divide(net_income, revenue)
        leverage == _safe_divide(avg_assets, avg_equity)
    IN  [name \in RatioSet |->
            CASE name = R_ARTurnover -> ar_turnover
              [] name = R_InventoryTurnover -> inventory_turnover
              [] name = R_APTurnover -> ap_turnover
              [] name = R_PPETurnover -> ppe_turnover
              [] name = R_AssetTurnover -> asset_turnover
              [] name = R_ReturnOnAssets -> roa
              [] name = R_CashConversionCycle -> ccc
              [] name = R_ReturnOnEquity -> roe
              [] name = R_ReturnOnCommonEquity -> roce
              [] name = R_NetProfitMargin -> npm
              [] name = R_Leverage -> leverage]

----------------------------------------------------------------------------
(* build_ratios: the workbook.  A workbook is the sequence of its sheets,   *)
(* each a name and the function from coordinates to non-None cell values.   *)

\* name in wb.sheetnames
HasSheet(book, name) == \E i \in DOMAIN book : book[i].name = name

\* wb[name]
Sheet(book, name) == book[CHOOSE i \in DOMAIN book : book[i].name = name].cells

\* del wb[name]
RECURSIVE DelSheet(_, _)
DelSheet(book, name) ==
    IF book = <<>> THEN <<>>
    ELSE IF Head(book).name = name THEN DelSheet(Tail(book), name)
    ELSE <<Head(book)>> \o DelSheet(Tail(book), name)

\* wb.create_sheet(name): a new empty sheet, last.
CreateSheet(book, name) ==
    Append(book, [name |-> name, cells |-> [rc \in {} |-> NoneCell]])

\* A step that reuses the RATIOS sheet that is there.
ReplaceRatios_KeepsSheet(book) ==
    IF HasSheet(book, "RATIOS") THEN book ELSE CreateSheet(book, "RATIOS")

\* The "create or replace" step: the book with a fresh, last, empty RATIOS.
ReplaceRatios(book) ==
    CreateSheet(IF HasSheet(book, "RATIOS") THEN DelSheet(book, "RATIOS")
                ELSE book,
                "RATIOS")

\* ws.cell(row, column, value) on every cell the writer touches: the header
\* row, then one row per ratio; writing None leaves the cell without value.
WriteRatios(cells, yrs, rs) ==
    LET nameRows == 2..(Len(RatioNames) + 1)
        yearCols == 2..(Len(yrs) + 1)
        touched == ({1} \cup nameRows) \X ({1} \cup yearCols)
        written(rc) ==
            IF rc = <<1, 1>> THEN Text(S_Ratio)
            ELSE IF rc[1] = 1 THEN Number(Int2Float(yrs[rc[2] - 1]))
            ELSE IF rc[2] = 1 THEN Text(RatioNames[rc[1] - 1])
            ELSE LET d == rs[RatioNames[rc[1] - 1]]
                     y == yrs[rc[2] - 1]
                 IN  IF y \in DOMAIN d /\ d[y] # None
                     THEN Number(d[y]) ELSE NoneCell
        kept == {rc \in (DOMAIN cells) \cup touched :
                    IF rc \in touched THEN written(rc) # NoneCell ELSE TRUE}
    IN  [rc \in kept |-> IF rc \in touched THEN written(rc) ELSE cells[rc]]

\* wb with sheet name's cells replaced
WithCells(book, name, cells) ==
    [i \in DOMAIN book |->
        IF book[i].name = name THEN [name |-> name, cells |-> cells]
        ELSE book[i]]

\* output_path or workbook_path
NoPath == "None"
SavePath(a) == IF a.output_path = NoPath THEN a.workbook_path ELSE a.output_path

----------------------------------------------------------------------------
(* build_ratios: the steps *)

NoCall == call = [fn |-> "none"] /\ ret = [done |-> FALSE, value |-> None]

\* wb = load_workbook(workbook_path, data_only=True); tables = {}
Load ==
    /\ pc = "load"
    /\ wb' = files[args.workbook_path]
    /\ tables' = <<>>
    /\ pc' = "read"
    /\ UNCHANGED <<files, args, years, ratios, err, call, ret>>

\* One iteration of the loop over SHEET_CONFIGS: wb[config.name] raises
\* KeyError for a sheet that is not there.
ReadSheet ==
    /\ pc = "read"
    /\ LET name == SheetNames[Len(tables) + 1]
           config == SHEET_CONFIGS[name]
       IN  IF ~HasSheet(wb, config.name)
           THEN /\ pc' = "failed" /\ err' = "KeyError"
                /\ UNCHANGED tables
           ELSE /\ tables' = Append(tables, _read_table(Sheet(wb, config.name), config))
                /\ pc' = IF Len(tables') = Len(SheetNames) THEN "years" ELSE "read"
                /\ UNCHANGED err
    /\ UNCHANGED <<files, args, wb, years, ratios, call, ret>>

\* years = sorted(...); ratios = {name: {} ...}
ComputeYears ==
    /\ pc = "years"
    /\ LET income == tables[1]
           balance == tables[2]
       IN  IF ~CanTakeFirst(income) \/ ~CanTakeFirst(balance)
           THEN /\ pc' = "failed" /\ err' = "StopIteration"
                /\ UNCHANGED <<years, ratios>>
           ELSE /\ years' = RunYears(income, balance)
                /\ ratios' = [name \in RatioSet |-> EmptyDict]
                /\ pc' = IF years' = <<>> THEN "replace" ELSE "ratios"
                /\ UNCHANGED err
    /\ UNCHANGED <<files, args, wb, tables, call, ret>>

\* One iteration of the loop over years.
ComputeYear ==
    /\ pc = "ratios"
    /\ LET i == Cardinality(DOMAIN ratios[R_ARTurnover]) + 1
           year == years[i]
           r == YearRatios(tables[1], tables[2], year)
       IN  /\ ratios' = [name \in RatioSet |-> DictPut(ratios[name], year, r[name])]
           /\ pc' = IF i = Len(years) THEN "replace" ELSE "ratios"
    /\ UNCHANGED <<files, args, wb, tables, years, err, call, ret>>

\* if "RATIOS" in wb.sheetnames: del wb["RATIOS"]; wb.create_sheet("RATIOS")
ReplaceSheet ==
    /\ pc = "replace"
    /\ wb' = ReplaceRatios(wb)
    /\ pc' = "write"
    /\ UNCHANGED <<files, args, tables, years, ratios, err, call, ret>>

\* A writer that saves the workbook as soon as the cells are written, and
\* again at the save step.
WriteSheet_SavesEarly ==
    /\ pc = "write"
    /\ wb' = WithCells(wb, "RATIOS", WriteRatios(Sheet(wb, "RATIOS"), years, ratios))
    /\ files' = [files EXCEPT ![SavePath(args)] = wb']
    /\ pc' = "save"
    /\ UNCHANGED <<args, tables, years, ratios, err, call, ret>>

\* The header row and the ratio rows.
WriteSheet ==
    /\ pc = "write"
    /\ wb' = WithCells(wb, "RATIOS", WriteRatios(Sheet(wb, "RATIOS"), years, ratios))
    /\ pc' = "save"
    /\ UNCHANGED <<files, args, tables, years, ratios, err, call, ret>>

\* wb.save(output_path or workbook_path)
Save ==
    /\ pc = "save"
    /\ files' = [files EXCEPT ![SavePath(args)] = wb]
    /\ pc' = "done"
    /\ UNCHANGED <<args, wb, tables, years, ratios, err, call, ret>>

\* build_ratios is called again with the same arguments, once.
Rerun ==
    /\ pc = "done" /\ args.run = 1
    /\ args' = [args EXCEPT !.run = 2]
    /\ pc' = "load"
    /\ wb' = <<>> /\ tables' = <<>> /\ years' = <<>> /\ ratios' = <<>>
    /\ UNCHANGED <<files, err, call, ret>>

Next ==
    \/ Load \/ ReadSheet \/ ComputeYears \/ ComputeYear
    \/ ReplaceSheet \/ WriteSheet \/ Save \/ Rerun

----------------------------------------------------------------------------
(* The workbooks build_ratios is run on: a base workbook in the layout of   *)
(* SHEET_CONFIGS, changed in at most MaxChanges places.                     *)

MaxChanges == 1

\* A worksheet laid out as config says: header[j] above year column j, and
\* rows[i] (a label cell and one cell per year column) in the i-th data row.
MakeSheet(config, header, rows) ==
    LET colOf(c) == CHOOSE j \in DOMAIN config.year_cols : config.year_cols[j] = c
        rowOf(r) == r - config.data_start_row + 1
        dataRows == {config.data_start_row + i - 1 : i \in DOMAIN rows}
        cols == {config.year_cols[j] : j \in DOMAIN header}
        at(rc) ==
            IF rc[1] = config.header_row THEN header[colOf(rc[2])]
            ELSE IF rc[2] = config.label_col THEN rows[rowOf(rc[1])].label
            ELSE rows[rowOf(rc[1])].cells[colOf(rc[2])]
        coords == ({config.header_row} \X cols)
                    \cup (dataRows \X ({config.label_col} \cup cols))
    IN  [rc \in {x \in coords : at(x) # NoneCell} |-> at(rc)]

Num(i) == Number(Int2Float(i))

Row(label, cells) == [label |-> Text(label), cells |-> cells]

\* Year columns, newest first: column 1 is the current year of the newest
\* statement and column 2 its prior year.
IncomeHeader == <<Num(2024), Num(2023), Num(2022)>>
BalanceHeader == <<Num(2024), Num(2023)>>

\* Two cells hold their number as text.
IncomeRows ==
    <<Row(L_Revenue, <<Num(120), Num(100), Num(80)>>),
      Row(L_CostOfRevenue, <<Num(70), Num(60), Text(<<"5","0">>)>>),
      Row(L_NetIncome, <<Num(20), Num(10), Num(5)>>),
      Row(L_NetIncomeCommon, <<Num(18), Num(9), Num(4)>>)>>

BalanceRows ==
    <<Row(L_AccountsReceivable, <<Num(12), Num(10)>>),
      Row(L_Inventory, <<Num(14), Num(14)>>),
      Row(L_AccountsPayable, <<Num(7), Num(7)>>),
      Row(L_PPE, <<Num(30), Text(<<" ","2","0",".","0">>)>>),
      Row(L_TotalAssets, <<Num(55), Num(50)>>),
      Row(L_TotalEquity, <<Num(25), Num(15)>>),
      Row(L_TotalStockholdersEquity, <<Num(24), Num(16)>>)>>

EquityHeader == <<Num(2024), Num(2023)>>
EquityRows == <<Row(<<"S","h","a","r","e","s">>, <<Num(3), Num(2)>>)>>

CashFlowHeader == <<Num(2024), Num(2023), Num(2022)>>
CashFlowRows == <<Row(<<"C","a","s","h">>, <<Num(9), Num(8), Num(7)>>)>>

\* A RATIOS sheet left by an earlier run over a wider year range, with one
\* row more than the current writer makes.
StaleRatios ==
    LET cols == 1..5
        at(rc) ==
            IF rc = <<1, 1>> THEN Text(S_Ratio)
            ELSE IF rc[1] = 1 THEN Num(2019 + rc[2])
            ELSE IF rc[2] = 1
                 THEN (IF rc[1] = 13 THEN Text(<<"O","l","d">>)
                       ELSE Text(RatioNames[rc[1] - 1]))
            ELSE Num(rc[1] + rc[2])
    IN  [rc \in (1..13) \X cols |-> at(rc)]

\* The ways a data row is changed: its label blanked, its current-year cell
\* emptied, its prior-year cell replaced by text, all its cells zero, its
\* prior-year cell the negative of its current-year cell, or a second row of
\* the same label (spelled with surrounding blanks) added below the others
\* with a prior-year value only.
RowKinds == {"absent", "nocur", "noprior", "zero", "negprior", "dup"}

ChangedRow(row, kind) ==
    CASE kind = "absent" -> [row EXCEPT !.label = NoneCell]
      [] kind = "nocur" -> [row EXCEPT !.cells[1] = NoneCell]
      [] kind = "noprior" -> [row EXCEPT !.cells[2] = Text(<<"n","/","a">>)]
      [] kind = "zero" -> [row EXCEPT !.cells = [j \in DOMAIN row.cells |-> Num(0)]]
      [] kind = "negprior" ->
            [row EXCEPT !.cells[2] = Number(FNeg(row.cells[1].v))]
      [] kind = "dup" -> row

DupRow(row) ==
    [label |-> Text(<<" ">> \o row.label.s \o <<" ", " ">>),
     cells |-> [j \in DOMAIN row.cells |-> IF j = 2 THEN Num(1) ELSE NoneCell]]

\* One change: of a data row (row > 0), of a whole sheet ("missing": the
\* sheet is not in the workbook; "blank": it has no data rows), or of the
\* output_path argument.
Changes ==
    {[sheet |-> "INCOME_STATEMENT", row |-> i, kind |-> k] :
        i \in DOMAIN IncomeRows, k \in RowKinds}
    \cup {[sheet |-> "BALANCE_SHEET", row |-> i, kind |-> k] :
            i \in DOMAIN BalanceRows, k \in RowKinds}
    \cup {[sheet |-> s, row |-> 0, kind |-> "missing"] :
            s \in {SheetNames[i] : i \in DOMAIN SheetNames} \cup {"RATIOS"}}
    \cup {[sheet |-> s, row |-> 0, kind |-> "blank"] :
            s \in {"INCOME_STATEMENT", "BALANCE_SHEET"}}
    \cup {[sheet |-> "args", row |-> 0, kind |-> "output_path"]}

Target(c) == <<c.sheet, c.row>>

\* The sets of at most k changes of distinct targets.
RECURSIVE ChangeSets(_)
ChangeSets(k) ==
    IF k = 0 THEN {{}}
    ELSE LET smaller == ChangeSets(k - 1)
         IN  smaller \cup
             UNION { {cs \cup {c} :
                        c \in {x \in Changes :
                                 \A y \in cs : Target(y) # Target(x)}} :
                     cs \in smaller }

\* The data rows of a sheet under the changes cs.
RowsUnder(cs, sheet, rows) ==
    IF \E c \in cs : c.sheet = sheet /\ c.kind = "blank" THEN <<>>
    ELSE LET changed ==
                [i \in DOMAIN rows |->
                    IF \E c \in cs : c.sheet = sheet /\ c.row = i
                    THEN ChangedRow(rows[i],
                            (CHOOSE c \in cs : c.sheet = sheet /\ c.row = i).kind)
                    ELSE rows[i]]
             dups == Sorted({c.row : c \in {x \in cs : x.sheet = sheet
                                                        /\ x.kind = "dup"}})
         IN  changed \o [k \in DOMAIN dups |-> DupRow(rows[dups[k]])]

RECURSIVE Without(_, _)
Without(book, names) ==
    IF book = <<>> THEN <<>>
    ELSE IF Head(book).name \in names THEN Without(Tail(book), names)
    ELSE <<Head(book)>> \o Without(Tail(book), names)

\* The workbook under the changes cs.
Workbook(cs) ==
    LET cfg == SHEET_CONFIGS
        full ==
          <<[name |-> "INCOME_STATEMENT",
             cells |-> MakeSheet(cfg.INCOME_STATEMENT, IncomeHeader,
                                 RowsUnder(cs, "INCOME_STATEMENT", IncomeRows))],
            [name |-> "BALANCE_SHEET",
             cells |-> MakeSheet(cfg.BALANCE_SHEET, BalanceHeader,
                                 RowsUnder(cs, "BALANCE_SHEET", BalanceRows))],
            [name |-> "STOCKHOLDERS_EQUITY",
             cells |-> MakeSheet(cfg.STOCKHOLDERS_EQUITY, EquityHeader, EquityRows)],
            [name |-> "CASH_FLOW",
             cells |-> MakeSheet(cfg.CASH_FLOW, CashFlowHeader, CashFlowRows)],
            [name |-> "RATIOS", cells |-> StaleRatios]>>
    IN  Without(full, {c.sheet : c \in {x \in cs : x.kind = "missing"}})

Init ==
    /\ \E cs \in ChangeSets(MaxChanges) :
          /\ files = [p \in {"in.xlsx", "out.xlsx"} |->
                        IF p = "in.xlsx" THEN Workbook(cs) ELSE <<>>]
          /\ args = [workbook_path |-> "in.xlsx",
                     output_path |-> IF \E c \in cs : c.kind = "output_path"
                                     THEN "out.xlsx" ELSE NoPath,
                     run |-> 1]
    /\ wb = <<>> /\ tables = <<>> /\ years = <<>> /\ ratios = <<>>
    /\ pc = "load" /\ err = "none"
    /\ NoCall

Spec == Init /\ [][Next]_vars

----------------------------------------------------------------------------
(* The helpers exercised directly: the arguments are drawn in the initial   *)
(* state and one action applies the helper.                                 *)

\* build_ratios is not running.
Idle ==
    /\ files = <<>> /\ args = <<>> /\ wb = <<>> /\ tables = <<>>
    /\ years = <<>> /\ ratios = <<>> /\ pc = "idle" /\ err = "none"

IdleUnchanged == UNCHANGED <<files, args, wb, tables, years, ratios, pc, err>>

(* _safe_divide *)

MaxNum == 3
MaxDen == 3

\* Finite floats and None.
DivideOperands ==
    {None, Fin(FloatMax, 1), Fin(-FloatMax, 1)}
        \cup {Fin(n, d) : n \in (-MaxNum)..MaxNum, d \in 1..MaxDen}

InitDivide ==
    /\ Idle
    /\ call \in {[fn |-> "_safe_divide", numerator |-> a, denominator |-> b] :
                    a \in DivideOperands, b \in DivideOperands}
    /\ ret = [done |-> FALSE, value |-> None]

CallSafeDivide ==
    /\ call.fn = "_safe_divide" /\ ~ret.done
    /\ ret' = [done |-> TRUE,
               value |-> _safe_divide(call.numerator, call.denominator)]
    /\ UNCHANGED call /\ IdleUnchanged

NextDivide == CallSafeDivide

SpecDivide == InitDivide /\ [][NextDivide]_vars

(* _find_value *)

MaxEntries == 2
MaxVariants == 2

\* Labels as a caller or a worksheet spells them; their normal forms are
\* "a", "ab", "a b" and "b".
RawLabels ==
    {<<"A">>, <<" ","a","B">>, <<"A"," ","\t","b">>, <<"b"," ">>}

FindYears == {2023, 2024}

\* The sequences over S of length 1..n without repetition.
RECURSIVE Arrangements(_, _)
Arrangements(S, n) ==
    IF n = 0 THEN {}
    ELSE LET shorter == Arrangements(S, n - 1)
         IN  {<<x>> : x \in S} \cup shorter
                \cup {Append(q, x) : q \in shorter, x \in S}

Distinct(q) == \A i, j \in DOMAIN q : i # j => q[i] # q[j]

\* The tables of at most n items: normalized distinct keys, each
\* with a non-empty inner dict; the value of item i for year y is 10*i plus
\* the last digit of y, so that every value names its item and year.
FindTables(n) ==
    LET keys == {_normalize_label(l) : l \in RawLabels}
        keySeqs == {<<>>} \cup {q \in Arrangements(keys, n) : Distinct(q)}
        domains == (SUBSET FindYears) \ {{}}
    IN  UNION { { [i \in DOMAIN q |->
                     [key |-> q[i],
                      values |-> [y \in ds[i] |-> Int2Float(10 * i + (y % 10))]]] :
                  ds \in [DOMAIN q -> domains] } : q \in keySeqs }

InitFind ==
    /\ Idle
    /\ call \in {[fn |-> "_find_value", table |-> t, label_variants |-> lv,
                  year |-> y] :
                    t \in FindTables(MaxEntries),
                    lv \in Arrangements(RawLabels, MaxVariants),
                    y \in FindYears}
    /\ ret = [done |-> FALSE, value |-> None]

CallFindValue ==
    /\ call.fn = "_find_value" /\ ~ret.done
    /\ ret' = [done |-> TRUE,
               value |-> _find_value(call.table, call.label_variants, call.year)]
    /\ UNCHANGED call /\ IdleUnchanged

NextFind == CallFindValue

SpecFind == InitFind /\ [][NextFind]_vars

(* _read_table *)

MaxRows == 2
MaxFilled == 2

\* Header rows: the float 2023.5 (int() gives 2023) beside 2024, the year
\* 2024 twice, and a text header beside 2024.
ReadHeaders ==
    {<<Number(Fin(4047, 2)), Number(Int2Float(2024))>>,
     <<Number(Int2Float(2024)), Number(Int2Float(2024))>>,
     <<Text(<<"F","Y">>), Number(Int2Float(2024))>>}

\* Label cells: blank, "Rev", " rEV " (the same label once normalized)
\* and "Cost".
ReadLabelCells ==
    {NoneCell, Text(<<"R","e","v">>), Text(<<" ","r","E","V"," ">>),
     Text(<<"C","o","s","t">>)}

\* Data cells other than None: the empty string, text that is no number,
\* the number 0, and a number that names its row i and column j.
ReadDataCells(i, j) ==
    {Text(<<>>), Text(<<"n","/","a">>), Number(Int2Float(0)),
     Number(Int2Float(10 * i + j))}

ReadConfig == SHEET_CONFIGS.BALANCE_SHEET

\* The ways to fill the slots S (row, column) leaving all but at most k of
\* them None.
RECURSIVE Fillings(_, _)
Fillings(S, k) ==
    IF S = {} THEN {[s \in {} |-> NoneCell]}
    ELSE LET s == CHOOSE x \in S : TRUE
             put(f, c) == [x \in DOMAIN f \cup {s} |-> IF x = s THEN c ELSE f[x]]
         IN  {put(f, NoneCell) : f \in Fillings(S \ {s}, k)}
                \cup (IF k = 0 THEN {}
                      ELSE {put(f, c) : f \in Fillings(S \ {s}, k - 1),
                                        c \in ReadDataCells(s[1], s[2])})

\* The data rows: nRows rows with at most nFilled cells that are not None.
ReadRowsPool(nRows, nFilled) ==
    LET nCols == Len(ReadConfig.year_cols)
    IN  { [i \in 1..nRows |->
             [label |-> ls[i], cells |-> [j \in 1..nCols |-> f[<<i, j>>]]]] :
          f \in Fillings((1..nRows) \X (1..nCols), nFilled),
          ls \in [1..nRows -> ReadLabelCells] }

InitRead ==
    /\ Idle
    /\ call \in {[fn |-> "_read_table",
                  ws |-> MakeSheet(ReadConfig, h, rows),
                  config |-> ReadConfig] :
                    h \in ReadHeaders,
                    rows \in ReadRowsPool(MaxRows, MaxFilled)}
    /\ ret = [done |-> FALSE, value |-> <<>>]

CallReadTable ==
    /\ call.fn = "_read_table" /\ ~ret.done
    /\ ret' = [done |-> TRUE, value |-> _read_table(call.ws, call.config)]
    /\ UNCHANGED call /\ IdleUnchanged

NextRead == CallReadTable

SpecRead == InitRead /\ [][NextRead]_vars

----------------------------------------------------------------------------
(* Claims about _safe_divide (SpecDivide) *)

\* C8: _safe_divide returns None when the numerator is None, the denominator
\* is None or the denominator is zero, and the quotient otherwise; it never
\* raises and never returns an infinity.
C8_SafeDivideNeverInfinite ==
    (call.fn = "_safe_divide" /\ ret.done) =>
        LET n == call.numerator
            d == call.denominator
            r == ret.value
            guarded == n = None \/ d = None \/ (d.k = "fin" /\ d.n = 0)
        IN  /\ guarded => r = None
            /\ ~guarded => /\ r.k = "fin"
                           /\ r.n * (n.d * d.n) = (n.n * d.d) * r.d
            /\ r.k \notin {"inf", "raise", "ZeroDivisionError"}

----------------------------------------------------------------------------
(* Claims about _find_value (SpecFind) *)

\* The variants whose normal form is a key of the table with the year.
ExactVariants(table, label_variants, year) ==
    {i \in DOMAIN label_variants :
        \E e \in DOMAIN table :
            /\ table[e].key = _normalize_label(label_variants[i])
            /\ year \in DOMAIN table[e].values}

\* The items whose key contains some variant's normal form and have the year.
SubstringItems(table, label_variants, year) ==
    {e \in DOMAIN table :
        /\ year \in DOMAIN table[e].values
        /\ \E i \in DOMAIN label_variants :
              Contains(table[e].key, _normalize_label(label_variants[i]))}

Least(S) == CHOOSE x \in S : \A y \in S : x <= y

\* C5: _find_value returns the value of the first variant (in list order)
\* that is exactly a key with the year, even when an earlier item merely
\* contains a variant; it returns the first item (in insertion order) that
\* contains a variant and has the year only when no variant is exact; and
\* it returns None exactly when neither exists.
C5_ExactBeforeSubstring ==
    (call.fn = "_find_value" /\ ret.done) =>
        LET t == call.table
            lv == call.label_variants
            y == call.year
            exact == ExactVariants(t, lv, y)
            sub == SubstringItems(t, lv, y)
        IN  /\ exact # {} =>
                \E e \in DOMAIN t :
                    /\ t[e].key = _normalize_label(lv[Least(exact)])
                    /\ ret.value = t[e].values[y]
            /\ (exact = {} /\ sub # {}) => ret.value = t[Least(sub)].values[y]
            /\ (ret.value = None) <=> (exact = {} /\ sub = {})

\* An exact match exists on a later item while an earlier item contains a
\* variant and has the year, and the later item's value is returned.
C5_Witness ==
    /\ call.fn = "_find_value" /\ ret.done
    /\ LET t == call.table
           lv == call.label_variants
           y == call.year
           exact == ExactVariants(t, lv, y)
           sub == SubstringItems(t, lv, y)
       IN  /\ exact # {} /\ sub # {}
           /\ \E e \in DOMAIN t :
                /\ t[e].key = _normalize_label(lv[Least(exact)])
                /\ Least(sub) < e
                /\ ret.value = t[e].values[y]
                /\ ret.value # t[Least(sub)].values[y]

----------------------------------------------------------------------------
(* Claims about _read_table (SpecRead) *)

\* The data rows of the configured range.
DataRows(config) == config.data_start_row..config.data_end_row

\* Year column j has a numeric header.
NumericHeader(ws, config, j) ==
    CellValue(ws, config.header_row, config.year_cols[j]).t = "num"

\* The year of such a column: the integer part of its header.
ColumnYear(ws, config, j) ==
    IntOf(CellValue(ws, config.header_row, config.year_cols[j]).v)

\* The cell of row r in year column j is neither blank nor fails float().
Coerces(ws, config, r, j) ==
    LET value == CellValue(ws, r, config.year_cols[j])
    IN  ~IsBlank(value) /\ (value.t = "num" \/ ParseFloat(value.s) # ValueError)

\* The cells of row r that yield a value for year y.
YieldingCols(ws, config, r, y) ==
    {j \in DOMAIN config.year_cols :
        /\ NumericHeader(ws, config, j) /\ ColumnYear(ws, config, j) = y
        /\ Coerces(ws, config, r, j)}

\* The years row r yields a value for.
RowYears(ws, config, r) ==
    {ColumnYear(ws, config, j) :
        j \in {c \in DOMAIN config.year_cols :
                 NumericHeader(ws, config, c) /\ Coerces(ws, config, r, c)}}

\* The year-to-value mapping of row r: for each year, the last column of
\* that year that yields a value.
RowMapping(ws, config, r) ==
    [y \in RowYears(ws, config, r) |->
        LET js == YieldingCols(ws, config, r, y)
            j == CHOOSE c \in js : \A o \in js : o <= c
        IN  Float(CellValue(ws, r, config.year_cols[j]))]

\* The rows with a non-blank label whose normal form is key.
RowsLabelled(ws, config, key) ==
    {r \in DataRows(config) :
        LET label == CellValue(ws, r, config.label_col)
        IN  ~IsBlank(label) /\ _normalize_label(label.s) = key}

\* The keys that occur as labels.
LabelKeys(ws, config) ==
    {_normalize_label(CellValue(ws, r, config.label_col).s) :
        r \in {x \in DataRows(config) :
                 ~IsBlank(CellValue(ws, x, config.label_col))}}

\* table.get(key, {})
MappingOf(table, key) == IF HasKey(table, key) THEN Lookup(table, key) ELSE EmptyDict

Greatest(S) == CHOOSE x \in S : \A y \in S : y <= x

\* C4: a blank cell or one that fails numeric coercion leaves no value in the
\* table, and never a zero: every value of the table is float() of a cell
\* that is neither, in a row of that label and a column of that year; a key
\* has at least one value, so a row that yields none contributes no key; and
\* a cell holding the number 0 is kept as 0.
C4_BlankCellsOmitted ==
    (call.fn = "_read_table" /\ ret.done) =>
        LET ws == call.ws
            config == call.config
            table == ret.value
        IN  /\ \A e \in DOMAIN table :
                /\ DOMAIN table[e].values # {}
                /\ \A y \in DOMAIN table[e].values :
                      \E r \in RowsLabelled(ws, config, table[e].key) :
                          \E j \in YieldingCols(ws, config, r, y) :
                              table[e].values[y] =
                                  Float(CellValue(ws, r, config.year_cols[j]))
            /\ \A key \in LabelKeys(ws, config) :
                  (\A r \in RowsLabelled(ws, config, key) :
                        RowYears(ws, config, r) = {})
                  => ~HasKey(table, key)
            /\ \A key \in LabelKeys(ws, config) :
                  \A r \in RowsLabelled(ws, config, key) :
                      \A j \in DOMAIN config.year_cols :
                          LET value == CellValue(ws, r, config.year_cols[j])
                              y == ColumnYear(ws, config, j)
                          IN  ( /\ NumericHeader(ws, config, j)
                                /\ value = Number(Int2Float(0))
                                /\ \A o \in YieldingCols(ws, config, r, y) : o <= j
                                /\ \A later \in RowsLabelled(ws, config, key) :
                                      later > r => RowYears(ws, config, later) = {} )
                              => /\ HasKey(table, key)
                                 /\ y \in DOMAIN Lookup(table, key)
                                 /\ Lookup(table, key)[y] = Int2Float(0)

\* A labelled row with one cell that fails coercion and one cell holding 0
\* under numeric headers of different years: the table has the 0 and
\* nothing for the other year.
C4_Witness ==
    /\ call.fn = "_read_table" /\ ret.done
    /\ \E r \in DataRows(call.config) :
        \E j1, j2 \in DOMAIN call.config.year_cols :
          LET ws == call.ws
              config == call.config
              label == CellValue(ws, r, config.label_col)
              key == _normalize_label(label.s)
          IN  /\ ~IsBlank(label)
              /\ NumericHeader(ws, config, j1) /\ NumericHeader(ws, config, j2)
              /\ ColumnYear(ws, config, j1) # ColumnYear(ws, config, j2)
              /\ CellValue(ws, r, config.year_cols[j1]) = Text(<<"n","/","a">>)
              /\ CellValue(ws, r, config.year_cols[j2]) = Number(Int2Float(0))
              /\ HasKey(ret.value, key)
              /\ DOMAIN Lookup(ret.value, key) = {ColumnYear(ws, config, j2)}
              /\ Lookup(ret.value, key)[ColumnYear(ws, config, j2)] = Int2Float(0)

\* C10 as stated: for a label that two or more rows share, the table holds
\* exactly the mapping of the last such row.
C10_LastRowWins ==
    (call.fn = "_read_table" /\ ret.done) =>
        \A key \in LabelKeys(call.ws, call.config) :
            LET rows == RowsLabelled(call.ws, call.config, key)
            IN  Cardinality(rows) >= 2 =>
                    MappingOf(ret.value, key) =
                        RowMapping(call.ws, call.config, Greatest(rows))

\* C10 amended: for a label that two or more rows share, the table holds
\* exactly the mapping of the last such row that yields at least one value
\* (and no key when none does); no year or value of an earlier row survives.
C10_LastYieldingRowWins ==
    (call.fn = "_read_table" /\ ret.done) =>
        \A key \in LabelKeys(call.ws, call.config) :
            LET rows == RowsLabelled(call.ws, call.config, key)
                yielding == {r \in rows : RowYears(call.ws, call.config, r) # {}}
            IN  Cardinality(rows) >= 2 =>
                    IF yielding = {} THEN ~HasKey(ret.value, key)
                    ELSE /\ HasKey(ret.value, key)
                         /\ Lookup(ret.value, key) =
                              RowMapping(call.ws, call.config, Greatest(yielding))

\* Two rows spell the same label differently, both yield a value, for
\* different years, and the table has the later row's mapping only.
C10_Witness ==
    /\ call.fn = "_read_table" /\ ret.done
    /\ \E key \in LabelKeys(call.ws, call.config) :
        \E r1, r2 \in RowsLabelled(call.ws, call.config, key) :
            /\ r1 < r2
            /\ CellValue(call.ws, r1, call.config.label_col)
                 # CellValue(call.ws, r2, call.config.label_col)
            /\ RowYears(call.ws, call.config, r1) # {}
            /\ RowYears(call.ws, call.config, r2) # {}
            /\ RowYears(call.ws, call.config, r1)
                 \cap RowYears(call.ws, call.config, r2) = {}
            /\ Lookup(ret.value, key) = RowMapping(call.ws, call.config, r2)

----------------------------------------------------------------------------
(* Claims about build_ratios (Spec) *)

RequiredSheets == {SheetNames[i] : i \in DOMAIN SheetNames}

HasAllSheets(book) == \A name \in RequiredSheets : HasSheet(book, name)

\* The positions after the loop over SHEET_CONFIGS has ended normally.
PastRead == {"years", "ratios", "replace", "write", "save", "done"}

\* C1: the persisted workbooks change only at the save step; a run on a
\* workbook that lacks one of the four sheets ends in KeyError at the read
\* of that sheet and never gets past the reads; a step that fails writes
\* nothing.
C1_SaveIsTheOnlyWrite ==
    /\ [](pc \in PastRead => HasAllSheets(files[args.workbook_path]))
    /\ [][(pc = "read" /\ ~HasSheet(wb, SheetNames[Len(tables) + 1]))
            => (pc' = "failed" /\ err' = "KeyError")]_vars
    /\ [][files' # files => (pc = "save" /\ pc' = "done")]_vars
    /\ [][pc' = "failed" => files' = files]_vars

\* A run has failed on a missing sheet, and the stored workbook still has
\* the RATIOS sheet it had, while nothing was written to the output path.
C1_Witness ==
    /\ pc = "failed" /\ err = "KeyError"
    /\ ~HasAllSheets(files["in.xlsx"])
    /\ HasSheet(files["in.xlsx"], "RATIOS")
    /\ Sheet(files["in.xlsx"], "RATIOS") = StaleRatios
    /\ files["out.xlsx"] = <<>>

\* C2: with all four sheets in the workbook, no run ends in an error,
\* whatever the data rows hold.
C2_NoErrorWhenSheetsPresent ==
    HasAllSheets(files[args.workbook_path]) => (pc # "failed" /\ err = "none")

\* The row-1 cells of a RATIOS sheet from column 2 on.
HeaderYearCells(cells) == {rc \in DOMAIN cells : rc[1] = 1 /\ rc[2] >= 2}

Ascending(q) == \A i, j \in DOMAIN q : i < j => q[i] < q[j]

\* C3: the years of the run are exactly the years common to the first item
\* of the income table and the first item of the balance table, ascending
\* and without duplicates; each has data in both tables; every ratio has
\* exactly these years, and the header written has exactly these columns.
C3_YearsAreCommonYears ==
    (pc \in {"ratios", "replace", "write", "save", "done"}) =>
        LET income == tables[1]
            balance == tables[2]
            common == DOMAIN income[1].values \cap DOMAIN balance[1].values
        IN  /\ {years[i] : i \in DOMAIN years} = common
            /\ Ascending(years)
            /\ \A y \in common :
                  /\ \E e \in DOMAIN income : y \in DOMAIN income[e].values
                  /\ \E e \in DOMAIN balance : y \in DOMAIN balance[e].values
            /\ pc \in {"replace", "write", "save", "done"} =>
                  \A name \in RatioSet : DOMAIN ratios[name] = common
            /\ pc \in {"save", "done"} =>
                  LET cells == Sheet(IF pc = "done" THEN files[SavePath(args)]
                                     ELSE wb, "RATIOS")
                  IN  /\ HeaderYearCells(cells)
                            = {<<1, i + 1>> : i \in DOMAIN years}
                      /\ \A i \in DOMAIN years :
                            cells[<<1, i + 1>>] = Number(Int2Float(years[i]))

\* A run has completed with a year of the income table's first item left
\* out because the balance table's first item lacks it.
C3_Witness ==
    /\ pc = "done" /\ years # <<>>
    /\ \E y \in DOMAIN tables[1][1].values :
          /\ y \notin DOMAIN tables[2][1].values
          /\ \A i \in DOMAIN years : years[i] # y
          /\ \A rc \in HeaderYearCells(Sheet(files[SavePath(args)], "RATIOS")) :
                Sheet(files[SavePath(args)], "RATIOS")[rc] # Number(Int2Float(y))

\* What a run writes for a workbook, from its source sheets alone: the
\* header "Ratio" and the years, then a row per ratio; None leaves no cell.
ExpectedRatios(book) ==
    LET income == _read_table(Sheet(book, "INCOME_STATEMENT"),
                              SHEET_CONFIGS.INCOME_STATEMENT)
        balance == _read_table(Sheet(book, "BALANCE_SHEET"),
                               SHEET_CONFIGS.BALANCE_SHEET)
        yrs == RunYears(income, balance)
        at(rc) ==
            IF rc = <<1, 1>> THEN Text(S_Ratio)
            ELSE IF rc[1] = 1 THEN Number(Int2Float(yrs[rc[2] - 1]))
            ELSE IF rc[2] = 1 THEN Text(RatioNames[rc[1] - 1])
            ELSE LET v == YearRatios(income, balance, yrs[rc[2] - 1])
                               [RatioNames[rc[1] - 1]]
                 IN  IF v = None THEN NoneCell ELSE Number(v)
        grid == (1..(Len(RatioNames) + 1)) \X (1..(Len(yrs) + 1))
    IN  [rc \in {x \in grid : at(x) # NoneCell} |-> at(rc)]

\* C6: after a run the saved workbook has exactly one RATIOS sheet, and its
\* cells are what the source sheets determine and nothing else, whatever the
\* RATIOS sheet held before; the source sheets are saved as they were; and
\* the second run saves the RATIOS sheet the first run saved.
C6_RatiosFullyReplaced ==
    /\ [](pc = "done" =>
            LET book == files[SavePath(args)]
            IN  /\ Cardinality({i \in DOMAIN book : book[i].name = "RATIOS"}) = 1
                /\ Sheet(book, "RATIOS") = ExpectedRatios(book)
                /\ \A name \in RequiredSheets :
                      Sheet(book, name) = Sheet(files[args.workbook_path], name))
    /\ [][(pc = "save" /\ pc' = "done" /\ args.run = 2) =>
            Sheet(files'[SavePath(args)], "RATIOS")
                = Sheet(files[SavePath(args)], "RATIOS")]_vars

\* Two runs have completed on a workbook that holds a RATIOS sheet of a
\* wider year range and one row more, and the saved RATIOS sheet has none of
\* the extra columns or rows.
C6_Witness ==
    /\ pc = "done" /\ args.run = 2
    /\ Sheet(files["in.xlsx"], "RATIOS") = StaleRatios
    /\ files["out.xlsx"] # <<>>
    /\ years = <<2023, 2024>>
    /\ \A rc \in DOMAIN Sheet(files["out.xlsx"], "RATIOS") :
          rc[1] <= Len(RatioNames) + 1 /\ rc[2] <= 3

\* The ratios that divide by an average balance: name, the label of the
\* numerator in the income table, the label of the balance item.
AverageRatios ==
    {<<R_ARTurnover, L_Revenue, L_AccountsReceivable>>,
     <<R_InventoryTurnover, L_CostOfRevenue, L_Inventory>>,
     <<R_APTurnover, L_CostOfRevenue, L_AccountsPayable>>,
     <<R_PPETurnover, L_Revenue, L_PPE>>,
     <<R_AssetTurnover, L_Revenue, L_TotalAssets>>,
     <<R_ReturnOnAssets, L_NetIncome, L_TotalAssets>>,
     <<R_ReturnOnEquity, L_NetIncome, L_TotalEquity>>,
     <<R_ReturnOnCommonEquity, L_NetIncomeCommon, L_TotalStockholdersEquity>>}

\* numerator / mean(current, prior), or None when one of the three is None
\* or the mean is zero.
OverMean(numerator, current, prior) ==
    IF numerator = None \/ current = None \/ prior = None THEN None
    ELSE LET mean == FDiv(FAdd(current, prior), Int2Float(2))
         IN  IF IsZero(mean) THEN None ELSE FDiv(numerator, mean)

\* C7: once the loop over the years has ended, for every year of the run
\* each ratio over an average balance is its numerator divided by the mean
\* of the balance item's values for the year and the year before when all
\* three resolve and the mean is not zero, and None otherwise, so None
\* whenever the prior-year value is missing; Leverage is the mean of total
\* assets over the mean of total equity in the same way; revenue 120 over
\* total assets 55 and 50 gives 120/52.5.
C7_AverageBalanceRatios ==
    (pc \in {"replace", "done"}) =>
        \A i \in DOMAIN years :
            LET y == years[i]
                income == tables[1]
                balance == tables[2]
                at(label, yr) == _find_value(balance, <<label>>, yr)
            IN  /\ \A a \in AverageRatios :
                      LET numerator == _find_value(income, <<a[2]>>, y)
                          current == at(a[3], y)
                          prior == at(a[3], y - 1)
                      IN  /\ ratios[a[1]][y] = OverMean(numerator, current, prior)
                          /\ prior = None => ratios[a[1]][y] = None
                          /\ ( /\ a[1] = R_AssetTurnover
                               /\ numerator = Int2Float(120)
                               /\ current = Int2Float(55)
                               /\ prior = Int2Float(50) )
                             => ratios[a[1]][y] = [k |-> "fin", n |-> 16, d |-> 7]
                /\ ratios[R_Leverage][y] =
                      ( IF at(L_TotalAssets, y) = None
                           \/ at(L_TotalAssets, y - 1) = None
                        THEN None
                        ELSE OverMean(FDiv(FAdd(at(L_TotalAssets, y),
                                                at(L_TotalAssets, y - 1)),
                                           Int2Float(2)),
                                      at(L_TotalEquity, y),
                                      at(L_TotalEquity, y - 1)) )

\* A run has completed in which revenue 120 over total assets 55 and 50
\* gave 16/7 for 2024, and 2023, whose prior-year balance is missing though
\* its revenue and total assets resolve, got None.
C7_Witness ==
    /\ pc = "done" /\ years = <<2023, 2024>>
    /\ _find_value(tables[1], <<L_Revenue>>, 2024) = Int2Float(120)
    /\ _find_value(tables[2], <<L_TotalAssets>>, 2024) = Int2Float(55)
    /\ _find_value(tables[2], <<L_TotalAssets>>, 2023) = Int2Float(50)
    /\ ratios[R_AssetTurnover][2024] = [k |-> "fin", n |-> 16, d |-> 7]
    /\ _find_value(tables[1], <<L_Revenue>>, 2023) # None
    /\ _find_value(tables[2], <<L_TotalAssets>>, 2022) = None
    /\ \A a \in AverageRatios : ratios[a[1]][2023] = None

\* 365 / turnover, guarded
DaysOf(turnover) ==
    IF turnover = None \/ IsZero(turnover) THEN None
    ELSE FDiv(Int2Float(365), turnover)

\* C9: once the loop over the years has ended, for every year of the run,
\* with DSO, DIO and DPO being 365 guarded-divided by the A/R, inventory and
\* A/P turnover, Cash Conversion Cycle is None if DSO or DPO is None,
\* DSO - DPO if DIO is None, and DSO + DIO - DPO otherwise; 10, None, 4
\* give 6 and 10, 5, 4 give 11.
C9_CashConversionCycle ==
    /\ CashConversionCycle(Int2Float(10), None, Int2Float(4)) = Int2Float(6)
    /\ CashConversionCycle(Int2Float(10), Int2Float(5), Int2Float(4)) = Int2Float(11)
    /\ (pc \in {"replace", "done"}) =>
          \A i \in DOMAIN years :
              LET y == years[i]
                  dso == DaysOf(ratios[R_ARTurnover][y])
                  dio == DaysOf(ratios[R_InventoryTurnover][y])
                  dpo == DaysOf(ratios[R_APTurnover][y])
                  ccc == ratios[R_CashConversionCycle][y]
              IN  /\ (dso = None \/ dpo = None) => ccc = None
                  /\ (dso # None /\ dpo # None /\ dio = None)
                        => ccc = FSub(dso, dpo)
                  /\ (dso # None /\ dpo # None /\ dio # None)
                        => ccc = FSub(FAdd(dso, dio), dpo)

\* A run has completed with a year whose DSO and DPO are known and whose
\* DIO is not, and its Cash Conversion Cycle is DSO - DPO.
C9_Witness ==
    /\ pc = "done"
    /\ \E i \in DOMAIN years :
          LET y == years[i]
              dso == DaysOf(ratios[R_ARTurnover][y])
              dio == DaysOf(ratios[R_InventoryTurnover][y])
              dpo == DaysOf(ratios[R_APTurnover][y])
          IN  /\ dso # None /\ dpo # None /\ dio = None
              /\ ratios[R_CashConversionCycle][y] = FSub(dso, dpo)
              /\ ratios[R_CashConversionCycle][y] # None
====
